---- MODULE Spec2Model ----
(***************************************************************************)
(* Command protocol and request dispatch of the stream handler             *)
(* (stream/handler.go): parseRawMessage, the six typed request builders    *)
(* and Handler.Process.                                                    *)
(*                                                                         *)
(* A Go string is modelled as a sequence of one-character strings, so that *)
(* splitting, joining and integer decoding are computed character by       *)
(* character as the library routines compute them.                         *)
(***************************************************************************)
EXTENDS Integers, Sequences, FiniteSets, TLC

VARIABLES
    availableCmds,  \* package-level map used as the set of known command tokens
    h,              \* the Handler: its paxos and log fields
    pc,             \* per invocation of Process: position in the method
    msg,            \* per invocation: message.Message()
    ctx,            \* per invocation: the ctx argument
    parsed,         \* per invocation: local *Request returned by parseRawMessage
    typed,          \* per invocation: local typed request returned by a builder
    ret,            \* per invocation: the error returned by Process
    calls,          \* per invocation: semantic operations invoked, in order
    collab,         \* per invocation: collaborator methods invoked, in order
    sink,           \* per invocation: payloads pushed to the ServerResponse
    breq,           \* builder harness: the base Request handed to a builder
    bname,          \* builder harness: the builder applied
    bres            \* builder harness: what the builder returned

vars == <<availableCmds, h, pc, msg, ctx, parsed, typed, ret, calls, collab,
          sink, breq, bname, bres>>

procVars == <<pc, msg, ctx, parsed, typed, ret, calls, collab, sink>>
buildVars == <<breq, bname, bres>>

-----------------------------------------------------------------------------
(* Bounds *)

NumProcs == 2       \* invocations of Process that may be in flight
MaxArgs == 3        \* space-separated pieces after the head of a message
ConcMaxArgs == 1    \* the same, for the messages of concurrent invocations
MaxBuildArgs == 4   \* length of args of a Request handed directly to a builder

Procs == 1..NumProcs

-----------------------------------------------------------------------------
(* Errors and literals *)

Nil == "nil"
ErrUnknownCmd == "unknown cmd"
ErrIncorrectCmd == "incorrect cmd"
ErrSyntax == "strconv.Atoi: invalid syntax"
ErrRange == "strconv.Atoi: value out of range"
ErrCollaborator == "collaborator error"
ResponseOK == "ok"

NilRequest == [kind |-> "nil"]

-----------------------------------------------------------------------------
(* Command tokens of package client *)

CmdPush == <<"p", "u", "s", "h">>
CmdPull == <<"p", "u", "l", "l">>
CmdGet == <<"g", "e", "t">>
CmdStatus == <<"s", "t", "a", "t", "u", "s">>
CmdPrepare == <<"p", "r", "e", "p", "a", "r", "e">>
CmdAccept == <<"a", "c", "c", "e", "p", "t">>
CmdSet == <<"s", "e", "t">>

InitAvailableCmds ==
    {CmdPush, CmdPull, CmdGet, CmdStatus, CmdPrepare, CmdAccept, CmdSet}

-----------------------------------------------------------------------------
(* strings.SplitN / strings.Split / strings.Join, strconv.Atoi *)

Space == " "

\* strings.Index(s, sep) for a one-byte sep: 0-based, -1 when absent.
Index(s, sep) ==
    IF \E i \in 1..Len(s) : s[i] = sep
    THEN (CHOOSE i \in 1..Len(s) :
              s[i] = sep /\ \A j \in 1..(i - 1) : s[j] # sep) - 1
    ELSE -1

\* strings.genSplit: n = 0 gives no piece, n < 0 means no limit; the last
\* piece allowed by n holds the unsplit remainder.
RECURSIVE SplitN(_, _, _)
SplitN(s, sep, n) ==
    IF n = 0 THEN <<>>
    ELSE LET m == Index(s, sep) IN
         IF n = 1 \/ m < 0 THEN <<s>>
         ELSE <<SubSeq(s, 1, m)>>
                  \o SplitN(SubSeq(s, m + 2, Len(s)), sep,
                            IF n < 0 THEN n ELSE n - 1)

Split(s, sep) == SplitN(s, sep, -1)

RECURSIVE Join(_, _)
Join(elems, sep) ==
    IF elems = <<>> THEN <<>>
    ELSE IF Len(elems) = 1 THEN elems[1]
    ELSE elems[1] \o <<sep>> \o Join(Tail(elems), sep)

Digits == <<"0", "1", "2", "3", "4", "5", "6", "7", "8", "9">>

IsDigit(ch) == \E d \in 1..Len(Digits) : Digits[d] = ch
DigitVal(ch) == (CHOOSE d \in 1..Len(Digits) : Digits[d] = ch) - 1

RECURSIVE StripZeros(_)
StripZeros(ds) ==
    IF ds # <<>> /\ Head(ds) = "0" THEN StripZeros(Tail(ds)) ELSE ds

RECURSIVE DigitsValue(_, _)
DigitsValue(ds, acc) ==
    IF ds = <<>> THEN acc
    ELSE DigitsValue(Tail(ds), acc * 10 + DigitVal(Head(ds)))

\* Decimal digits of the largest int (64-bit int: 9223372036854775807).
MaxIntDigits ==
    <<"9", "2", "2", "3", "3", "7", "2", "0", "3", "6",
      "8", "5", "4", "7", "7", "5", "8", "0", "7">>

RECURSIVE DigitsLess(_, _)
\* a < b for digit sequences of equal length
DigitsLess(a, b) ==
    IF a = <<>> THEN FALSE
    ELSE IF DigitVal(Head(a)) # DigitVal(Head(b))
         THEN DigitVal(Head(a)) < DigitVal(Head(b))
         ELSE DigitsLess(Tail(a), Tail(b))

\* Whether the magnitude ds exceeds what an int of the given sign can hold
\* (the negative range has one more value than the positive one).
OutOfRange(ds, neg) ==
    LET z == StripZeros(ds) IN
    \/ Len(z) > Len(MaxIntDigits)
    \/ /\ Len(z) = Len(MaxIntDigits)
       /\ DigitsLess(MaxIntDigits, z)
       /\ ~(neg /\ SubSeq(z, 1, Len(z) - 1) = SubSeq(MaxIntDigits, 1, Len(z) - 1)
                /\ DigitVal(z[Len(z)]) = DigitVal(MaxIntDigits[Len(z)]) + 1)

\* strconv.Atoi: an optional sign followed by at least one decimal digit and
\* nothing else, within the range of int.
Atoi(s) ==
    LET signed == s # <<>> /\ s[1] \in {"-", "+"}
        neg == s # <<>> /\ s[1] = "-"
        ds == IF signed THEN Tail(s) ELSE s
    IN  IF ds = <<>> \/ \E i \in 1..Len(ds) : ~IsDigit(ds[i])
        THEN [n |-> 0, err |-> ErrSyntax]
        ELSE IF OutOfRange(ds, neg)
        THEN [n |-> 0, err |-> ErrRange]
        ELSE [n |-> IF neg THEN 0 - DigitsValue(ds, 0) ELSE DigitsValue(ds, 0),
              err |-> Nil]

-----------------------------------------------------------------------------
(* parseRawMessage *)

\* parseRawMessage reporting an unavailable token as ErrUnknownCmd.
parseRawMessage_Unknown(message) ==
    LET p == SplitN(message, Space, 2) IN
    IF Len(p) = 0 THEN [req |-> NilRequest, err |-> ErrIncorrectCmd]
    ELSE LET cmd == p[1]
             rawArgs == IF Len(p) = 2 THEN p[2] ELSE <<>>
         IN  IF cmd \notin availableCmds
             THEN [req |-> NilRequest, err |-> ErrUnknownCmd]
             ELSE [req |-> [kind |-> "Request", ctx |-> Nil, cmd |-> cmd,
                            args |-> Split(rawArgs, Space)],
                   err |-> Nil]

\* parseRawMessage splitting the whole message into args, command included.
parseRawMessage_KeepCmd(message) ==
    LET p == SplitN(message, Space, 2) IN
    IF Len(p) = 0 THEN [req |-> NilRequest, err |-> ErrIncorrectCmd]
    ELSE LET cmd == p[1]
         IN  IF cmd \notin availableCmds
             THEN [req |-> NilRequest, err |-> ErrIncorrectCmd]
             ELSE [req |-> [kind |-> "Request", ctx |-> Nil, cmd |-> cmd,
                            args |-> Split(message, Space)],
                   err |-> Nil]

parseRawMessage(message) ==
    LET p == SplitN(message, Space, 2) IN
    IF Len(p) = 0 THEN [req |-> NilRequest, err |-> ErrIncorrectCmd]
    ELSE LET cmd == p[1]
             rawArgs == IF Len(p) = 2 THEN p[2] ELSE <<>>
         IN  IF cmd \notin availableCmds
             THEN [req |-> NilRequest, err |-> ErrIncorrectCmd]
             ELSE [req |-> [kind |-> "Request", ctx |-> Nil, cmd |-> cmd,
                            args |-> Split(rawArgs, Space)],
                   err |-> Nil]

-----------------------------------------------------------------------------
(* Typed request builders *)

Fail(e) == [req |-> NilRequest, err |-> e]

NewGetRequest(request) ==
    IF request.cmd # CmdGet THEN Fail(ErrIncorrectCmd)
    ELSE IF Len(request.args) = 0 THEN Fail(ErrIncorrectCmd)
    ELSE LET a == Atoi(request.args[1]) IN
         IF a.err # Nil THEN Fail(a.err)
         ELSE [req |-> [kind |-> "GetRequest", Request |-> request, n |-> a.n],
               err |-> Nil]

\* NewPullRequest reporting a failed decode as ErrIncorrectCmd.
NewPullRequest_ArityErr(request) ==
    IF request.cmd # CmdPull THEN Fail(ErrIncorrectCmd)
    ELSE IF Len(request.args) = 0 THEN Fail(ErrIncorrectCmd)
    ELSE LET a == Atoi(request.args[1]) IN
         IF a.err # Nil THEN Fail(ErrIncorrectCmd)
         ELSE [req |-> [kind |-> "PullRequest", Request |-> request, n |-> a.n],
               err |-> Nil]

NewPullRequest(request) ==
    IF request.cmd # CmdPull THEN Fail(ErrIncorrectCmd)
    ELSE IF Len(request.args) = 0 THEN Fail(ErrIncorrectCmd)
    ELSE LET a == Atoi(request.args[1]) IN
         IF a.err # Nil THEN Fail(a.err)
         ELSE [req |-> [kind |-> "PullRequest", Request |-> request, n |-> a.n],
               err |-> Nil]

\* NewPushRequest without the check of the embedded command.
NewPushRequest_NoCmdCheck(request) ==
    IF Len(request.args) = 0 THEN Fail(ErrIncorrectCmd)
    ELSE [req |-> [kind |-> "PushRequest", Request |-> request,
                   v |-> request.args[1]],
          err |-> Nil]

NewPushRequest(request) ==
    IF request.cmd # CmdPush THEN Fail(ErrIncorrectCmd)
    ELSE IF Len(request.args) = 0 THEN Fail(ErrIncorrectCmd)
    ELSE [req |-> [kind |-> "PushRequest", Request |-> request,
                   v |-> request.args[1]],
          err |-> Nil]

NewPrepareRequest(request) ==
    IF request.cmd # CmdPrepare THEN Fail(ErrIncorrectCmd)
    ELSE IF Len(request.args) = 0 THEN Fail(ErrIncorrectCmd)
    ELSE LET a == Atoi(request.args[1]) IN
         IF a.err # Nil THEN Fail(a.err)
         ELSE [req |-> [kind |-> "PrepareRequest", Request |-> request,
                        n |-> a.n],
               err |-> Nil]

\* NewAcceptRequest rejecting only fewer than three arguments.
NewAcceptRequest_AtLeast3(request) ==
    IF request.cmd # CmdAccept THEN Fail(ErrIncorrectCmd)
    ELSE IF Len(request.args) < 3 THEN Fail(ErrIncorrectCmd)
    ELSE LET a == Atoi(request.args[1]) IN
         IF a.err # Nil THEN Fail(a.err)
         ELSE [req |-> [kind |-> "AcceptRequest", Request |-> request,
                        n |-> a.n, id |-> request.args[2],
                        v |-> request.args[3]],
               err |-> Nil]

NewAcceptRequest(request) ==
    IF request.cmd # CmdAccept THEN Fail(ErrIncorrectCmd)
    ELSE IF Len(request.args) # 3 THEN Fail(ErrIncorrectCmd)
    ELSE LET a == Atoi(request.args[1]) IN
         IF a.err # Nil THEN Fail(a.err)
         ELSE [req |-> [kind |-> "AcceptRequest", Request |-> request,
                        n |-> a.n, id |-> request.args[2],
                        v |-> request.args[3]],
               err |-> Nil]

NewSetRequest(request) ==
    IF request.cmd # CmdSet THEN Fail(ErrIncorrectCmd)
    ELSE IF Len(request.args) # 3 THEN Fail(ErrIncorrectCmd)
    ELSE LET a == Atoi(request.args[1]) IN
         IF a.err # Nil THEN Fail(a.err)
         ELSE [req |-> [kind |-> "SetRequest", Request |-> request,
                        n |-> a.n, id |-> request.args[2],
                        v |-> request.args[3]],
               err |-> Nil]

-----------------------------------------------------------------------------
(* Handler.Process *)

\* The switch with the operations of the set and accept cases exchanged.
Dispatch_Swapped(request) ==
    CASE request.cmd = CmdPush ->
           [op |-> "Push"] @@ NewPushRequest(request)
      [] request.cmd = CmdGet ->
           [op |-> "Get"] @@ NewGetRequest(request)
      [] request.cmd = CmdPull ->
           [op |-> "Pull"] @@ NewPullRequest(request)
      [] request.cmd = CmdStatus ->
           [op |-> "Status", req |-> NilRequest, err |-> Nil]
      [] request.cmd = CmdSet ->
           [op |-> "Accept"] @@ NewSetRequest(request)
      [] request.cmd = CmdPrepare ->
           [op |-> "Prepare"] @@ NewPrepareRequest(request)
      [] request.cmd = CmdAccept ->
           [op |-> "Set"] @@ NewAcceptRequest(request)
      [] OTHER ->
           [op |-> "none", req |-> NilRequest, err |-> ErrUnknownCmd]

\* The switch on parsed.cmd: the builder applied to the parsed Request and
\* the semantic operation the case goes on to invoke.
Dispatch(request) ==
    CASE request.cmd = CmdPush ->
           [op |-> "Push"] @@ NewPushRequest(request)
      [] request.cmd = CmdGet ->
           [op |-> "Get"] @@ NewGetRequest(request)
      [] request.cmd = CmdPull ->
           [op |-> "Pull"] @@ NewPullRequest(request)
      [] request.cmd = CmdStatus ->
           [op |-> "Status", req |-> NilRequest, err |-> Nil]
      [] request.cmd = CmdSet ->
           [op |-> "Set"] @@ NewSetRequest(request)
      [] request.cmd = CmdPrepare ->
           [op |-> "Prepare"] @@ NewPrepareRequest(request)
      [] request.cmd = CmdAccept ->
           [op |-> "Accept"] @@ NewAcceptRequest(request)
      [] OTHER ->
           [op |-> "none", req |-> NilRequest, err |-> ErrUnknownCmd]

\* The collaborator methods a semantic operation calls.
CollabCalls(op) ==
    CASE op = "Push" -> <<"paxos.Commit">>
      [] op = "Get" -> <<"log.Get">>
      [] op = "Pull" -> <<"log.Pull">>
      [] op = "Status" -> <<>>
      [] op = "Set" -> <<"log.Set">>
      [] op = "Prepare" -> <<"paxos.Prepare">>
      [] op = "Accept" -> <<"paxos.Accept">>

\* What a semantic operation pushes to the response on success.
Payload(op) ==
    [op |-> op, text |-> IF op = "Push" THEN ResponseOK ELSE "result"]

\* The parsed Request kept in one slot shared by all invocations.
StoreParsed_Shared(p, request) ==
    parsed' = [q \in Procs |-> request]

\* Where Process keeps the parsed Request: a local of the invocation.
StoreParsed(p, request) ==
    parsed' = [parsed EXCEPT ![p] = request]

\* Process is entered with a message and a context.
Call(p, m, c) ==
    /\ pc[p] = "idle"
    /\ pc' = [pc EXCEPT ![p] = "parse"]
    /\ msg' = [msg EXCEPT ![p] = m]
    /\ ctx' = [ctx EXCEPT ![p] = c]
    /\ UNCHANGED <<availableCmds, h, parsed, typed, ret, calls, collab, sink>>
    /\ UNCHANGED buildVars

\* parsed, err := parseRawMessage(message.Message()); parsed.ctx = ctx
ProcessParse(p) ==
    /\ pc[p] = "parse"
    /\ LET r == parseRawMessage(msg[p]) IN
       IF r.err # Nil
       THEN /\ ret' = [ret EXCEPT ![p] = r.err]
            /\ pc' = [pc EXCEPT ![p] = "done"]
            /\ UNCHANGED parsed
       ELSE /\ StoreParsed(p, [r.req EXCEPT !.ctx = ctx[p]])
            /\ pc' = [pc EXCEPT ![p] = "switch"]
            /\ UNCHANGED ret
    /\ UNCHANGED <<availableCmds, h, msg, ctx, typed, calls, collab, sink>>
    /\ UNCHANGED buildVars

\* The switch going on to the operation without returning the builder's error.
ProcessBuild_IgnoreErr(p) ==
    /\ pc[p] = "switch"
    /\ typed' = [typed EXCEPT ![p] = Dispatch(parsed[p]).req]
    /\ pc' = [pc EXCEPT ![p] = "invoke"]
    /\ UNCHANGED <<availableCmds, h, msg, ctx, parsed, ret, calls, collab, sink>>
    /\ UNCHANGED buildVars

\* switch parsed.cmd: build the typed request, return its error if any
ProcessBuild(p) ==
    /\ pc[p] = "switch"
    /\ LET d == Dispatch(parsed[p]) IN
       IF d.err # Nil
       THEN /\ ret' = [ret EXCEPT ![p] = d.err]
            /\ pc' = [pc EXCEPT ![p] = "done"]
            /\ UNCHANGED typed
       ELSE /\ typed' = [typed EXCEPT ![p] = d.req]
            /\ pc' = [pc EXCEPT ![p] = "invoke"]
            /\ UNCHANGED ret
    /\ UNCHANGED <<availableCmds, h, msg, ctx, parsed, calls, collab, sink>>
    /\ UNCHANGED buildVars

\* return h.<Op>(request, response)
ProcessInvoke(p) ==
    /\ pc[p] = "invoke"
    /\ LET op == Dispatch(parsed[p]).op IN
       \E ok \in BOOLEAN :
          /\ calls' = [calls EXCEPT
                          ![p] = Append(@, [op |-> op, req |-> typed[p]])]
          /\ collab' = [collab EXCEPT ![p] = @ \o CollabCalls(op)]
          /\ sink' = [sink EXCEPT
                         ![p] = IF ok THEN Append(@, Payload(op)) ELSE @]
          /\ ret' = [ret EXCEPT ![p] = IF ok THEN Nil ELSE ErrCollaborator]
    /\ pc' = [pc EXCEPT ![p] = "done"]
    /\ UNCHANGED <<availableCmds, h, msg, ctx, parsed, typed>>
    /\ UNCHANGED buildVars

\* Process has returned; its locals are gone.
Return(p) ==
    /\ pc[p] = "done"
    /\ pc' = [pc EXCEPT ![p] = "idle"]
    /\ msg' = [msg EXCEPT ![p] = <<>>]
    /\ ctx' = [ctx EXCEPT ![p] = Nil]
    /\ parsed' = [parsed EXCEPT ![p] = NilRequest]
    /\ typed' = [typed EXCEPT ![p] = NilRequest]
    /\ ret' = [ret EXCEPT ![p] = Nil]
    /\ calls' = [calls EXCEPT ![p] = <<>>]
    /\ collab' = [collab EXCEPT ![p] = <<>>]
    /\ sink' = [sink EXCEPT ![p] = <<>>]
    /\ UNCHANGED <<availableCmds, h>>
    /\ UNCHANGED buildVars

-----------------------------------------------------------------------------
(* Inputs *)

Ping == <<"p", "i", "n", "g">>
PushX == <<"p", "u", "s", "h", "x">>
TooBig == MaxIntDigits \o <<"0">>

Contexts == {"ctx1", "ctx2"}

\* All sequences over S of length at most n.
TokLists(S, n) == UNION {[1..k -> S] : k \in 0..n}

HeadToks == InitAvailableCmds \cup {<<>>, Ping, PushX}
ArgToks == {<<>>, <<"7">>, <<"x">>, TooBig}

\* Every message is the join of its space-free pieces.
Messages ==
    {Join(<<hd>> \o a, Space) : hd \in HeadToks, a \in TokLists(ArgToks, MaxArgs)}

ConcHeadToks == {CmdPush, CmdGet, Ping}
ConcArgToks == {<<"7">>}

ConcMessages ==
    {Join(<<hd>> \o a, Space) :
        hd \in ConcHeadToks, a \in TokLists(ConcArgToks, ConcMaxArgs)}

BuildCmds == InitAvailableCmds \cup {Ping}
BuildArgToks == {<<>>, <<"7">>, <<"-", "1", "2">>, <<"+", "3">>, <<"1", "x">>, TooBig}

BuildRequests ==
    [kind : {"Request"}, ctx : Contexts, cmd : BuildCmds,
     args : TokLists(BuildArgToks, MaxBuildArgs)]

-----------------------------------------------------------------------------
(* Specifications *)

InitShared ==
    /\ availableCmds = InitAvailableCmds
    /\ h = [paxos |-> "paxos", log |-> "log"]

InitProcs ==
    /\ pc = [p \in Procs |-> "idle"]
    /\ msg = [p \in Procs |-> <<>>]
    /\ ctx = [p \in Procs |-> Nil]
    /\ parsed = [p \in Procs |-> NilRequest]
    /\ typed = [p \in Procs |-> NilRequest]
    /\ ret = [p \in Procs |-> Nil]
    /\ calls = [p \in Procs |-> <<>>]
    /\ collab = [p \in Procs |-> <<>>]
    /\ sink = [p \in Procs |-> <<>>]

NoBuild ==
    /\ breq = NilRequest
    /\ bname = "none"
    /\ bres = Fail(Nil)

Init == InitShared /\ InitProcs /\ NoBuild

AllIdle == \A p \in Procs : pc[p] = "idle"

\* One invocation of Process at a time, over all messages.
Next ==
    \E p \in Procs :
        \/ AllIdle /\ \E m \in Messages, c \in Contexts : Call(p, m, c)
        \/ ProcessParse(p)
        \/ ProcessBuild(p)
        \/ ProcessInvoke(p)
        \/ Return(p)

Spec == Init /\ [][Next]_vars

\* Any number of invocations of Process in flight, freely interleaved.
NextConc ==
    \E p \in Procs :
        \/ \E m \in ConcMessages, c \in Contexts : Call(p, m, c)
        \/ ProcessParse(p)
        \/ ProcessBuild(p)
        \/ ProcessInvoke(p)
        \/ Return(p)

SpecConc == Init /\ [][NextConc]_vars

\* Each builder applied directly to a base Request.
InitBuild ==
    /\ InitShared
    /\ InitProcs
    /\ breq \in BuildRequests
    /\ bname = "none"
    /\ bres = Fail(Nil)

Apply(name, result) ==
    /\ bname = "none"
    /\ bname' = name
    /\ bres' = result
    /\ UNCHANGED <<availableCmds, h, breq>>
    /\ UNCHANGED procVars

ApplyNewGetRequest == Apply("NewGetRequest", NewGetRequest(breq))
ApplyNewPullRequest == Apply("NewPullRequest", NewPullRequest(breq))
ApplyNewPushRequest == Apply("NewPushRequest", NewPushRequest(breq))
ApplyNewPrepareRequest == Apply("NewPrepareRequest", NewPrepareRequest(breq))
ApplyNewAcceptRequest == Apply("NewAcceptRequest", NewAcceptRequest(breq))
ApplyNewSetRequest == Apply("NewSetRequest", NewSetRequest(breq))

NextBuild ==
    \/ ApplyNewGetRequest
    \/ ApplyNewPullRequest
    \/ ApplyNewPushRequest
    \/ ApplyNewPrepareRequest
    \/ ApplyNewAcceptRequest
    \/ ApplyNewSetRequest

SpecBuild == InitBuild /\ [][NextBuild]_vars

-----------------------------------------------------------------------------
(* Vocabulary of the properties *)

\* The space-free pieces of a message, read off the positions of its spaces.
Cuts(s) == {0, Len(s) + 1} \cup {i \in 1..Len(s) : s[i] = Space}
NthCut(s, k) ==
    CHOOSE x \in Cuts(s) : Cardinality({y \in Cuts(s) : y < x}) = k - 1
Pieces(s) ==
    [k \in 1..(Cardinality(Cuts(s)) - 1) |->
        SubSeq(s, NthCut(s, k) + 1, NthCut(s, k + 1) - 1)]

\* The arguments that follow the command token; a message that is only a
\* token has the single empty argument.
ArgPieces(s) == IF Len(Pieces(s)) = 1 THEN <<<<>>>> ELSE Tail(Pieces(s))

RECURSIVE Power(_, _)
Power(b, e) == IF e = 0 THEN 1 ELSE b * Power(b, e - 1)

Unsigned(s) == IF s # <<>> /\ s[1] \in {"-", "+"} THEN Tail(s) ELSE s

\* s is a decimal numeral whose value an int holds.
IsDecimalInt(s) ==
    /\ Unsigned(s) # <<>>
    /\ \A i \in 1..Len(Unsigned(s)) : IsDigit(Unsigned(s)[i])
    /\ ~OutOfRange(Unsigned(s), s[1] = "-")

RECURSIVE PlaceSum(_, _)
PlaceSum(ds, i) ==
    IF i > Len(ds) THEN 0
    ELSE DigitVal(ds[i]) * Power(10, Len(ds) - i) + PlaceSum(ds, i + 1)

\* The value of a decimal numeral, by place values.
IntOf(s) ==
    IF s[1] = "-" THEN 0 - PlaceSum(Unsigned(s), 1) ELSE PlaceSum(Unsigned(s), 1)

OpOfToken(tok) ==
    CASE tok = CmdPush -> "Push"
      [] tok = CmdGet -> "Get"
      [] tok = CmdPull -> "Pull"
      [] tok = CmdStatus -> "Status"
      [] tok = CmdSet -> "Set"
      [] tok = CmdPrepare -> "Prepare"
      [] tok = CmdAccept -> "Accept"
      [] OTHER -> "none"

ParseOf(p) == parseRawMessage(msg[p])
BuildOf(p) == Dispatch([ParseOf(p).req EXCEPT !.ctx = ctx[p]])
ParseFails(p) == ParseOf(p).err # Nil
BuildFails(p) == ~ParseFails(p) /\ BuildOf(p).err # Nil
Untouched(p) == calls[p] = <<>> /\ collab[p] = <<>> /\ sink[p] = <<>>

-----------------------------------------------------------------------------
(* Properties *)

\* C1: when parsing or building fails, Process returns that error with no
\* semantic operation invoked, no collaborator called and nothing pushed to
\* the response; an operation, a collaborator call or a response write is
\* seen only for a message that parsed and built without error.
C1_ValidationBeforeCollaborators ==
    \A p \in Procs :
        /\ pc[p] # "idle" /\ ~Untouched(p) => ~ParseFails(p) /\ ~BuildFails(p)
        /\ pc[p] = "done" /\ ParseFails(p) =>
               ret[p] = ParseOf(p).err /\ Untouched(p)
        /\ pc[p] = "done" /\ BuildFails(p) =>
               ret[p] = BuildOf(p).err /\ Untouched(p)

C1_Witness ==
    \E p \in Procs :
        /\ pc[p] = "done"
        /\ parsed[p] # NilRequest
        /\ ret[p] = ErrSyntax
        /\ Untouched(p)

\* C2: a message that parses and builds invokes exactly one semantic
\* operation by the time Process returns, the one named by its command token,
\* with the fields decoded from the message's own arguments; no invocation
\* of Process ever invokes two.
C2_ExactlyOneOperation ==
    \A p \in Procs :
        /\ Len(calls[p]) <= 1
        /\ pc[p] = "done" /\ ~ParseFails(p) /\ ~BuildFails(p) =>
              /\ Len(calls[p]) = 1
              /\ LET c == calls[p][1]
                     a == ArgPieces(msg[p])
                 IN  /\ c.op = OpOfToken(Pieces(msg[p])[1])
                     /\ c.op = "Push" => c.req.v = a[1]
                     /\ c.op \in {"Get", "Pull", "Prepare", "Set", "Accept"} =>
                            c.req.n = IntOf(a[1])
                     /\ c.op \in {"Set", "Accept"} =>
                            c.req.id = a[2] /\ c.req.v = a[3]
                     /\ c.op # "Status" =>
                            c.req.Request.cmd = Pieces(msg[p])[1]

C2_Witness ==
    \E p \in Procs :
        /\ pc[p] = "done"
        /\ Len(calls[p]) = 1
        /\ calls[p][1].op = "Accept"
        /\ calls[p][1].req.n = 7

\* C3: a non-empty message whose leading token is not a command makes
\* Process fail with ErrUnknownCmd.
C3_UnknownCommand ==
    \A p \in Procs :
        pc[p] = "done" /\ msg[p] # <<>>
            /\ Pieces(msg[p])[1] \notin InitAvailableCmds =>
                ret[p] = ErrUnknownCmd

\* C4: a message that is only the token push, get, pull or prepare makes
\* Process fail with ErrIncorrectCmd, with no typed request built and no
\* semantic operation invoked.
C4_BareCommandRejected ==
    \A p \in Procs :
        pc[p] = "done" /\ msg[p] \in {CmdPush, CmdGet, CmdPull, CmdPrepare} =>
            ret[p] = ErrIncorrectCmd /\ typed[p] = NilRequest /\ calls[p] = <<>>

\* C5: NewAcceptRequest and NewSetRequest, given their own command, fail with
\* ErrIncorrectCmd for every args whose length is not 3, whatever args[0] is;
\* with 3 args and args[0] an integer they succeed with n the integer,
\* id = args[1] and v = args[2].
C5_AcceptSetArity ==
    (\/ bname = "NewAcceptRequest" /\ breq.cmd = CmdAccept
     \/ bname = "NewSetRequest" /\ breq.cmd = CmdSet) =>
        /\ Len(breq.args) # 3 => bres = Fail(ErrIncorrectCmd)
        /\ Len(breq.args) = 3 /\ IsDecimalInt(breq.args[1]) =>
              /\ bres.err = Nil
              /\ bres.req.n = IntOf(breq.args[1])
              /\ bres.req.id = breq.args[2]
              /\ bres.req.v = breq.args[3]

C5_Witness ==
    /\ bname = "NewAcceptRequest"
    /\ breq.cmd = CmdAccept
    /\ Len(breq.args) = 4
    /\ IsDecimalInt(breq.args[1])
    /\ bres = Fail(ErrIncorrectCmd)

\* C6: NewGetRequest, NewPullRequest and NewPrepareRequest, given their own
\* command and at least one argument, fail with a decode error (neither
\* ErrIncorrectCmd nor ErrUnknownCmd) and no typed request when args[0] is
\* not an integer, and succeed with n the integer when it is, whatever
\* follows args[0].
C6_DecodeFirstArgument ==
    (/\ \/ bname = "NewGetRequest" /\ breq.cmd = CmdGet
        \/ bname = "NewPullRequest" /\ breq.cmd = CmdPull
        \/ bname = "NewPrepareRequest" /\ breq.cmd = CmdPrepare
     /\ Len(breq.args) >= 1) =>
        IF IsDecimalInt(breq.args[1])
        THEN bres.err = Nil /\ bres.req.n = IntOf(breq.args[1])
        ELSE /\ bres.err \notin {Nil, ErrIncorrectCmd, ErrUnknownCmd}
             /\ bres.req = NilRequest

C6_Witness ==
    /\ bname = "NewPullRequest"
    /\ breq.cmd = CmdPull
    /\ Len(breq.args) >= 2
    /\ ~IsDecimalInt(breq.args[1])
    /\ bres = Fail(ErrSyntax)

\* C7: a line 'c a1 ... ak' with c a command, k >= 1 and every ai non-empty
\* and space-free parses to cmd = c and args = <<a1, ..., ak>>.
WellFormed(m) ==
    /\ Len(Pieces(m)) >= 2
    /\ Pieces(m)[1] \in InitAvailableCmds
    /\ \A i \in 1..Len(Pieces(m)) : Pieces(m)[i] # <<>>

C7_ParseKeepsArguments ==
    \A p \in Procs :
        pc[p] \in {"switch", "invoke", "done"} /\ WellFormed(msg[p]) =>
            /\ parsed[p] # NilRequest
            /\ parsed[p].cmd = Pieces(msg[p])[1]
            /\ parsed[p].args = Tail(Pieces(msg[p]))

C7_Witness ==
    \E p \in Procs :
        /\ pc[p] = "switch"
        /\ msg[p] = CmdPush \o <<Space, "x", Space, "7">>
        /\ parsed[p].args = << <<"x">>, <<"7">> >>

\* C8: the empty message makes parseRawMessage return no Request and Process
\* return ErrIncorrectCmd without invoking any operation.
C8_EmptyMessage ==
    \A p \in Procs :
        pc[p] = "done" /\ msg[p] = <<>> =>
            /\ ret[p] = ErrIncorrectCmd
            /\ parsed[p] = NilRequest
            /\ Untouched(p)

C8_Witness ==
    \E p \in Procs : pc[p] = "done" /\ msg[p] = <<>> /\ ret[p] = ErrIncorrectCmd

\* C9: under any interleaving of invocations of Process, no step changes the
\* Handler's fields or availableCmds, every invocation holds the Request and
\* typed request of its own message and context only, and returns the
\* outcome (error kind, or operation with its decoded fields) its message has
\* when processed alone.
Isolated(p) ==
    /\ parsed[p] # NilRequest =>
           parsed[p] = [ParseOf(p).req EXCEPT !.ctx = ctx[p]]
    /\ pc[p] \in {"invoke", "done"} /\ typed[p] # NilRequest =>
           typed[p] = BuildOf(p).req
    /\ pc[p] = "done" =>
           IF ParseFails(p) THEN ret[p] = ParseOf(p).err /\ Untouched(p)
           ELSE IF BuildFails(p) THEN ret[p] = BuildOf(p).err /\ Untouched(p)
           ELSE calls[p] = <<[op |-> BuildOf(p).op, req |-> BuildOf(p).req]>>

C9_ConcurrentIsolation ==
    /\ [](\A p \in Procs : Isolated(p))
    /\ [][availableCmds' = availableCmds /\ h' = h]_vars

C9_Witness ==
    \E p, q \in Procs :
        /\ p # q
        /\ pc[p] = "done" /\ calls[p] # <<>>
        /\ pc[q] = "invoke"
        /\ msg[p] # msg[q] /\ ctx[p] # ctx[q]

\* C10: a builder given a Request whose cmd is not the builder's own returns
\* ErrIncorrectCmd and no typed request, whatever the args; a typed request
\* that is returned embeds the given Request unchanged, with the builder's
\* command.
CmdOfBuilder ==
    CASE bname = "NewGetRequest" -> CmdGet
      [] bname = "NewPullRequest" -> CmdPull
      [] bname = "NewPushRequest" -> CmdPush
      [] bname = "NewPrepareRequest" -> CmdPrepare
      [] bname = "NewAcceptRequest" -> CmdAccept
      [] bname = "NewSetRequest" -> CmdSet

C10_BuilderChecksCommand ==
    bname # "none" =>
        /\ breq.cmd # CmdOfBuilder => bres = Fail(ErrIncorrectCmd)
        /\ bres.req # NilRequest =>
              /\ bres.err = Nil
              /\ bres.req.Request = breq
              /\ bres.req.Request.cmd = CmdOfBuilder

C10_Witness ==
    /\ bname = "NewPushRequest"
    /\ breq.cmd = CmdGet
    /\ Len(breq.args) >= 1
    /\ bres = Fail(ErrIncorrectCmd)

====
